---------------------------- MODULE Spec2Model ----------------------------
(***************************************************************************)
(* QuiClip: the path resolver (_resolve_selected_path, _safe_dir), the     *)
(* segment / video list handlers of the two tabs, and the trim / concat    *)
(* pipeline (clip_and_merge, merge_videos, fast_trim_to_mp4,               *)
(* fast_concat_mp4) over a modelled filesystem and a modelled ffmpeg.      *)
(*                                                                         *)
(* A string (str) is a sequence of tokens.  "/" , "." and "'" are always   *)
(* tokens of their own, so that os.path and str.replace work on them; the  *)
(* other tokens are single characters or, in generated names, fixed        *)
(* chunks ("quiclip-clip-", "part_").  startswith is the prefix relation   *)
(* on these sequences, as str.startswith is on characters.                 *)
(***************************************************************************)
EXTENDS Integers, Sequences, FiniteSets, TLC

VARIABLES
    fs,                 \* the filesystem: path -> [kind, data]
    tool,               \* what launching ffmpeg / ffprobe does on this host
    clock,              \* wall clock, in whole seconds (time.strftime)
    ntmp,               \* temporary directories created so far (mkdtemp)
    runs,               \* pipeline invocations started so far
    tab,                \* the surface this session drives
    state_segments,     \* fast clip tab: gr.State, the segment list
    segments_df,        \* fast clip tab: the Dataframe rows
    state_videos,       \* merge tab: gr.State, the video list
    state_selected,     \* merge tab: gr.State, the selected row (1-based)
    videos_df,          \* merge tab: the Dataframe rows
    fault,              \* the exception the last list handler let escape
    inv,                \* per invocation: the pipeline's frame
    path_value,         \* path resolver: the candidate handed in
    resolved,           \* path resolver: what _resolve_selected_path gave
    safe,               \* path resolver: what _safe_dir gave
    listing,            \* file browser: what list_video_files gave
    last                \* list handlers: the last call, its arguments and results

vars == << fs, tool, clock, ntmp, runs, tab, state_segments, segments_df,
           state_videos, state_selected, videos_df, fault, inv,
           path_value, resolved, safe, listing, last >>

-----------------------------------------------------------------------------
(* Bounds of the model *)

MaxList == 2            \* longest segment / video list
MaxRuns == 1            \* pipeline invocations per behaviour
MaxClock == 1           \* seconds the clock may advance
MaxVideos == 3          \* longest video list of the merge tab's event model
MaxOverlap == 2         \* invocations that may overlap

None == <<"None">>      \* Python's None (no path is this token sequence)

-----------------------------------------------------------------------------
(* str and os.path (posixpath) *)

startswith(s, prefix) ==
    /\ Len(prefix) <= Len(s)
    /\ SubSeq(s, 1, Len(prefix)) = prefix

\* str.rfind(ch) + 1: the 1-based position of the last ch, 0 if there is none
rfind(s, ch) ==
    LET hits == { i \in 1..Len(s) : s[i] = ch }
    IN  IF hits = {} THEN 0 ELSE CHOOSE i \in hits : \A j \in hits : j <= i

RECURSIVE split(_)
\* s.split("/")
split(s) ==
    IF s = <<>> THEN << <<>> >>
    ELSE LET r == split(Tail(s))
         IN  IF Head(s) = "/" THEN << <<>> >> \o r
             ELSE << <<Head(s)>> \o Head(r) >> \o Tail(r)

RECURSIVE join_comps(_)
\* "/".join(comps)
join_comps(comps) ==
    IF comps = <<>> THEN <<>>
    ELSE IF Len(comps) = 1 THEN comps[1]
    ELSE comps[1] \o <<"/">> \o join_comps(Tail(comps))

isabs(s) == s # <<>> /\ s[1] = "/"

RECURSIVE norm_fold(_, _, _)
\* the loop of posixpath.normpath over the components
norm_fold(comps, new_comps, initial_slashes) ==
    IF comps = <<>> THEN new_comps
    ELSE LET comp == Head(comps)
             n == Len(new_comps)
         IN  IF comp = <<>> \/ comp = <<".">>
               THEN norm_fold(Tail(comps), new_comps, initial_slashes)
             ELSE IF \/ comp # <<".", ".">>
                     \/ (~initial_slashes /\ n = 0)
                     \/ (n > 0 /\ new_comps[n] = <<".", ".">>)
               THEN norm_fold(Tail(comps), Append(new_comps, comp), initial_slashes)
             ELSE IF n > 0
               THEN norm_fold(Tail(comps), SubSeq(new_comps, 1, n - 1), initial_slashes)
             ELSE norm_fold(Tail(comps), new_comps, initial_slashes)

normpath(s) ==
    LET body == join_comps(norm_fold(split(s), <<>>, isabs(s)))
        r == IF isabs(s) THEN <<"/">> \o body ELSE body
    IN  IF r = <<>> THEN <<".">> ELSE r

\* os.path.join(a, b)
join(a, b) ==
    IF isabs(b) THEN b
    ELSE IF a = <<>> \/ a[Len(a)] = "/" THEN a \o b
    ELSE a \o <<"/">> \o b

\* the working directory the server was started in
CWD == <<"/">>

abspath(s) == normpath(IF isabs(s) THEN s ELSE join(CWD, s))

RECURSIVE rstrip_sep(_)
rstrip_sep(s) ==
    IF s # <<>> /\ s[Len(s)] = "/" THEN rstrip_sep(SubSeq(s, 1, Len(s) - 1)) ELSE s

dirname(s) ==
    LET head == SubSeq(s, 1, rfind(s, "/"))
    IN  IF head # <<>> /\ (\E k \in 1..Len(head) : head[k] # "/")
          THEN rstrip_sep(head) ELSE head

basename(s) == SubSeq(s, rfind(s, "/") + 1, Len(s))

\* os.path.splitext(s)[1]
splitext_ext(s) ==
    LET sepIndex == rfind(s, "/")
        dotIndex == rfind(s, ".")
    IN  IF /\ dotIndex > sepIndex
           /\ \E k \in (sepIndex + 1)..(dotIndex - 1) : s[k] # "."
          THEN SubSeq(s, dotIndex, Len(s)) ELSE <<>>

\* str.lower(), on the letters the model's names use
lower(s) ==
    [ k \in 1..Len(s) |->
        CASE s[k] = "M" -> "m"
          [] s[k] = "P" -> "p"
          [] s[k] = "T" -> "t"
          [] s[k] = "X" -> "x"
          [] OTHER -> s[k] ]

\* the path's components, for containment "as a path"
components(s) == norm_fold(split(s), <<>>, TRUE)

\* os.path.relpath(path, start), both absolute
relpath(path, start) ==
    LET pl == components(path)
        sl == components(start)
        common == { k \in 0..Len(sl) :
                      k <= Len(pl) /\ SubSeq(pl, 1, k) = SubSeq(sl, 1, k) }
        i == CHOOSE k \in common : \A j \in common : j <= k
        ups == [ k \in 1..(Len(sl) - i) |-> <<".", ".">> ]
        rel == ups \o SubSeq(pl, i + 1, Len(pl))
    IN  IF rel = <<>> THEN <<".">> ELSE join_comps(rel)

-----------------------------------------------------------------------------
(* Configuration and the host's files *)

\* config.MEDIA_ROOT, shortened to two components: "/a/b"
MEDIA_ROOT == <<"/", "a", "/", "b">>

VIDEO_EXTS == { <<".", "m", "p", "4">>, <<".", "m", "o", "v">>,
                <<".", "m", "k", "v">>, <<".", "m", "4", "v">>,
                <<".", "a", "v", "i">>, <<".", "t", "s">>,
                <<".", "w", "m", "v">> }

media_root_abs == abspath(MEDIA_ROOT)

Mp4 == <<".", "m", "p", "4">>

P_root  == <<"/">>
P_a     == <<"/", "a">>
P_tmp   == <<"/", "t", "m", "p">>
P_sub   == MEDIA_ROOT \o <<"/", "s">>                 \* /a/b/s     directory
P_x     == MEDIA_ROOT \o <<"/", "x">> \o Mp4          \* /a/b/x.mp4
P_y     == P_sub \o <<"/", "y", ".", "M", "P", "4">>  \* /a/b/s/y.MP4
P_txt   == MEDIA_ROOT \o <<"/", "n", ".", "t", "x", "t">>   \* /a/b/n.txt
P_sib   == MEDIA_ROOT \o <<"c">>                      \* /a/bc      sibling directory
P_sibx  == P_sib \o <<"/", "x">> \o Mp4               \* /a/bc/x.mp4
P_out   == P_a \o <<"/", "o">>                        \* /a/o       directory outside
P_outx  == P_out \o <<"/", "x">> \o Mp4               \* /a/o/x.mp4
P_dirv  == MEDIA_ROOT \o <<"/", "d">> \o Mp4          \* /a/b/d.mp4 a directory
P_gone  == MEDIA_ROOT \o <<"/", "g">> \o Mp4          \* /a/b/g.mp4 does not exist
P_new   == P_sub \o <<"/", "n", "e", "w">>            \* /a/b/s/new does not exist
P_deep  == MEDIA_ROOT \o <<"/", "q", "/", "r">>       \* /a/b/q/r   parent missing too
P_sibn  == P_sib \o <<"/", "n", "e", "w">>            \* /a/bc/new  does not exist
P_dots  == MEDIA_ROOT \o <<"/", ".", ".", "/", "b", "c", "/", "x">> \o Mp4
                                                      \* /a/b/../bc/x.mp4
P_rel   == <<"x">> \o Mp4                             \* x.mp4, relative
R_sub   == <<"s">>                                    \* s, relative: /a/b/s
R_sib   == <<".", ".", "/", "b", "c">>                \* ../bc, relative to the root
R_up    == <<".", ".">>                               \* .., relative to the root

Dir == [kind |-> "dir", data |-> <<>>]
File(d) == [kind |-> "file", data |-> d]

\* directories and files every host of the model has
BaseFs ==
    (P_root :> Dir) @@ (P_a :> Dir) @@ (P_tmp :> Dir) @@ (MEDIA_ROOT :> Dir)
    @@ (P_sub :> Dir) @@ (P_x :> File(<<>>)) @@ (P_y :> File(<<>>))
    @@ (P_txt :> File(<<>>)) @@ (P_dirv :> Dir)

\* what may lie beside the media root
SiblingFs == (P_sib :> Dir) @@ (P_sibx :> File(<<>>))
OutsideFs == (P_out :> Dir) @@ (P_outx :> File(<<>>))

HostFs == BaseFs @@ SiblingFs @@ OutsideFs

exists(p) == p \in DOMAIN fs
isfile(p) == p \in DOMAIN fs /\ fs[p].kind = "file"
isdir(p)  == p \in DOMAIN fs /\ fs[p].kind = "dir"

\* what a handler can be handed as a path (a str, or None)
Candidates ==
    { None, <<>>, MEDIA_ROOT, P_sub, P_x, P_y, P_txt, P_sib, P_sibx, P_out,
      P_outx, P_dirv, P_gone, P_new, P_deep, P_sibn, P_dots, P_rel,
      R_sub, R_sib, R_up }

\* Python truthiness of a str | None
falsy(v) == v = None \/ v = <<>>

-----------------------------------------------------------------------------
(* The path resolver: the same two closures in both tabs *)

_resolve_selected_path(v) ==
    IF falsy(v) THEN None
    ELSE LET full == abspath(v)
         IN  IF ~startswith(full, media_root_abs) THEN None
             ELSE IF ~isfile(full) THEN None
             ELSE IF lower(splitext_ext(full)) \notin VIDEO_EXTS THEN None
             ELSE full

_safe_dir(v) ==
    IF falsy(v) THEN media_root_abs
    ELSE LET full == abspath(v)
             parent == dirname(full)
         IN  IF ~startswith(full, media_root_abs) THEN media_root_abs
             ELSE IF isdir(full) THEN full
             ELSE IF isdir(parent) /\ startswith(parent, media_root_abs) THEN parent
             ELSE media_root_abs

_normalize_selected_file(v) ==
    LET r == _resolve_selected_path(v) IN IF r = None THEN <<>> ELSE r

_default_out_dir_from_file(v) ==
    LET path == _resolve_selected_path(v)
    IN  IF path = None THEN media_root_abs ELSE _safe_dir(dirname(path))


-----------------------------------------------------------------------------
(* The file browser (file_browser.py) *)

\* the characters of the host's file names, in code point order
Alphabet == << ".", "4", "M", "P", "a", "b", "c", "d", "e", "g", "m", "n", "o",
               "p", "q", "r", "s", "t", "v", "w", "x", "y" >>

ord(c) == CHOOSE i \in 1..Len(Alphabet) : Alphabet[i] = c

RECURSIVE str_lt(_, _)
\* a < b on str
str_lt(a, b) ==
    IF b = <<>> THEN FALSE
    ELSE IF a = <<>> THEN TRUE
    ELSE IF Head(a) = Head(b) THEN str_lt(Tail(a), Tail(b))
    ELSE ord(Head(a)) < ord(Head(b))

RECURSIVE sorted(_)
\* sorted(names)
sorted(names) ==
    IF names = {} THEN <<>>
    ELSE LET least == CHOOSE a \in names : \A b \in names \ {a} : str_lt(a, b)
         IN  <<least>> \o sorted(names \ {least})

\* os.listdir(d): raises OSError unless d is a directory
listdir_raises(d) == ~isdir(d)
listdir(d) == { basename(q) : q \in { q \in DOMAIN fs : q # d /\ dirname(q) = d } }

FileItem(label, path) == [label |-> label, path |-> path]

RECURSIVE list_items(_, _, _)
\* the loop over the sorted names
list_items(names, base_dir_abs, root_abs) ==
    IF names = <<>> THEN <<>>
    ELSE LET name == Head(names)
             path == join(base_dir_abs, name)
             rest == list_items(Tail(names), base_dir_abs, root_abs)
         IN  IF isfile(path) /\ lower(splitext_ext(name)) \in VIDEO_EXTS
               THEN <<FileItem(relpath(path, root_abs), path)>> \o rest
               ELSE rest

list_video_files(media_root, relative_dir) ==
    LET base_dir == normpath(join(media_root, relative_dir))
        root_abs == abspath(media_root)
        base_dir_abs == abspath(base_dir)
    IN  IF ~isdir(media_root) THEN <<>>
        ELSE IF ~startswith(base_dir_abs, root_abs) THEN <<>>
        ELSE IF listdir_raises(base_dir_abs) THEN <<>>
        ELSE list_items(sorted(listdir(base_dir_abs)), base_dir_abs, root_abs)

-----------------------------------------------------------------------------
(* int | None values of the surface: <<>> is None, <<n>> is the integer n *)

NoneInt == <<>>
PyInt(n) == <<n>>

\* Python's int(x): a TypeError on None
int_raises(x) == x = NoneInt
int(x) == x[1]

\* pop of the entry after the one asked for
RemoveAt_next(s, i) == SubSeq(s, 1, i) \o SubSeq(s, i + 2, Len(s))

RemoveAt(s, i) == SubSeq(s, 1, i - 1) \o SubSeq(s, i + 1, Len(s))
\* segments[j] = segments[i] alone: one half of the swap
Swap_overwrite(s, i, j) == [s EXCEPT ![j] = s[i]]

Swap(s, i, j) == [s EXCEPT ![i] = s[j], ![j] = s[i]]

\* what a list handler hands back: the exception it let escape, or its outputs
Raised(e) == [exc |-> e, list |-> <<>>, rows |-> <<>>, selected |-> NoneInt]
Returned(l, r, sel) == [exc |-> "none", list |-> l, rows |-> r, selected |-> sel]

\* the handler goes on with the caller's own list object
list_alias(l) == [obj |-> "arg", items |-> l]

\* segments = list(segments): the handler goes on with a new list object
list_copy(l) == [obj |-> "copy", items |-> l]

\* The caller's list object after the handler handed back r: append, pop and
\* the swap act on the object the handler's local name is bound to.
caller_list_after(arg, r) ==
    LET local == list_copy(arg)
    IN  IF local.obj = "arg" /\ r.exc = "none" THEN r.list ELSE arg

-----------------------------------------------------------------------------
(* Fast clip tab: the segment list handlers (fast_clip_tab.py) *)

\* enumerate(segments) without start=1
_segments_to_rows_from_zero(segments) ==
    [ i \in 1..Len(segments) |->
        [ num |-> i - 1,
          label |-> relpath(segments[i].path, media_root_abs),
          start |-> segments[i].start_sec,
          end |-> segments[i].end_sec ] ]

_segments_to_rows(segments) ==
    [ i \in 1..Len(segments) |->
        [ num |-> i,
          label |-> relpath(segments[i].path, media_root_abs),
          start |-> segments[i].start_sec,
          end |-> segments[i].end_sec ] ]

\* the range test written with < in place of <=
_add_segment_lt(v, start_sec, end_sec, segments) ==
    LET path == _resolve_selected_path(v)
    IN  IF path = None THEN Returned(segments, _segments_to_rows(segments), NoneInt)
        ELSE IF end_sec < start_sec
          THEN Returned(segments, _segments_to_rows(segments), NoneInt)
        ELSE LET new == Append(segments,
                          [ label |-> basename(path), path |-> path,
                            start_sec |-> start_sec, end_sec |-> end_sec ])
             IN  Returned(new, _segments_to_rows(new), NoneInt)

_add_segment(v, start_sec, end_sec, segments) ==
    LET path == _resolve_selected_path(v)
    IN  IF path = None THEN Returned(segments, _segments_to_rows(segments), NoneInt)
        ELSE IF end_sec <= start_sec
          THEN Returned(segments, _segments_to_rows(segments), NoneInt)
        ELSE LET new == Append(segments,
                          [ label |-> basename(path), path |-> path,
                            start_sec |-> start_sec, end_sec |-> end_sec ])
             IN  Returned(new, _segments_to_rows(new), NoneInt)

\* without the test j < 0: Python's segments[-1] is the last entry
clip_move_wraps(segments, idx, direction) ==
    IF int_raises(idx) THEN Raised("TypeError")
    ELSE LET i == int(idx) - 1
             j == i + direction
         IN  IF i < 0 \/ i >= Len(segments) \/ j >= Len(segments)
               THEN Returned(segments, _segments_to_rows(segments), NoneInt)
             ELSE LET new == Swap(segments, i + 1,
                                  IF j < 0 THEN Len(segments) + j + 1 ELSE j + 1)
                  IN  Returned(new, _segments_to_rows(new), NoneInt)

clip_move(segments, idx, direction) ==
    IF int_raises(idx) THEN Raised("TypeError")
    ELSE LET i == int(idx) - 1
             j == i + direction
         IN  IF i < 0 \/ i >= Len(segments) \/ j < 0 \/ j >= Len(segments)
               THEN Returned(segments, _segments_to_rows(segments), NoneInt)
             ELSE LET new == Swap(segments, i + 1, j + 1)
                  IN  Returned(new, _segments_to_rows(new), NoneInt)

clip_delete(segments, idx) ==
    IF int_raises(idx) THEN Raised("TypeError")
    ELSE LET i == int(idx) - 1
         IN  IF i < 0 \/ i >= Len(segments)
               THEN Returned(segments, _segments_to_rows(segments), NoneInt)
             ELSE LET new == RemoveAt(segments, i + 1)
                  IN  Returned(new, _segments_to_rows(new), NoneInt)

clip_clear == Returned(<<>>, <<>>, NoneInt)

-----------------------------------------------------------------------------
(* Merge tab: the video list handlers (merge_tab.py) *)

_videos_to_rows(videos) ==
    [ i \in 1..Len(videos) |->
        [ num |-> i, label |-> relpath(videos[i].path, media_root_abs) ] ]

\* without the test for an entry of the same path
_add_always(v, videos) ==
    LET path == _resolve_selected_path(v)
    IN  IF path = None THEN Returned(videos, _videos_to_rows(videos), NoneInt)
        ELSE LET new == Append(videos, [label |-> basename(path), path |-> path])
             IN  Returned(new, _videos_to_rows(new), PyInt(Len(new)))

\* also hands back the output directory textbox value, see MergeAdd
_add(v, videos) ==
    LET path == _resolve_selected_path(v)
    IN  IF path = None THEN Returned(videos, _videos_to_rows(videos), NoneInt)
        ELSE LET new == IF \E k \in 1..Len(videos) : videos[k].path = path
                          THEN videos
                          ELSE Append(videos, [label |-> basename(path), path |-> path])
             IN  Returned(new, _videos_to_rows(new), PyInt(Len(new)))

_add_out_dir(v) ==
    LET path == _resolve_selected_path(v)
    IN  IF path = None THEN media_root_abs ELSE _safe_dir(dirname(path))

\* hands back the old selection after a swap
merge_move_keeps_selection(videos, selected, direction) ==
    IF selected = NoneInt THEN Returned(videos, _videos_to_rows(videos), NoneInt)
    ELSE LET i == int(selected) - 1
             j == i + direction
         IN  IF i < 0 \/ i >= Len(videos) \/ j < 0 \/ j >= Len(videos)
               THEN Returned(videos, _videos_to_rows(videos), selected)
             ELSE LET new == Swap(videos, i + 1, j + 1)
                  IN  Returned(new, _videos_to_rows(new), selected)

merge_move(videos, selected, direction) ==
    IF selected = NoneInt THEN Returned(videos, _videos_to_rows(videos), NoneInt)
    ELSE LET i == int(selected) - 1
             j == i + direction
         IN  IF i < 0 \/ i >= Len(videos) \/ j < 0 \/ j >= Len(videos)
               THEN Returned(videos, _videos_to_rows(videos), selected)
             ELSE LET new == Swap(videos, i + 1, j + 1)
                  IN  Returned(new, _videos_to_rows(new), PyInt(j + 1))

Min(a, b) == IF a <= b THEN a ELSE b

\* without the min: the selection stays on the removed position
merge_delete_keeps_index(videos, selected) ==
    IF selected = NoneInt THEN Returned(videos, _videos_to_rows(videos), NoneInt)
    ELSE LET i == int(selected) - 1
         IN  IF i < 0 \/ i >= Len(videos)
               THEN Returned(videos, _videos_to_rows(videos), selected)
             ELSE LET new == RemoveAt(videos, i + 1)
                  IN  Returned(new, _videos_to_rows(new), PyInt(i + 1))

merge_delete(videos, selected) ==
    IF selected = NoneInt THEN Returned(videos, _videos_to_rows(videos), NoneInt)
    ELSE LET i == int(selected) - 1
         IN  IF i < 0 \/ i >= Len(videos)
               THEN Returned(videos, _videos_to_rows(videos), selected)
             ELSE LET new == RemoveAt(videos, i + 1)
                  IN  Returned(new, _videos_to_rows(new),
                               IF new = <<>> THEN NoneInt
                               ELSE PyInt(Min(i + 1, Len(new))))

merge_clear == Returned(<<>>, <<>>, NoneInt)

\* _select_row: the clicked row, 0-based in the event
_select_row(row) == PyInt(row + 1)


-----------------------------------------------------------------------------
(* The host: files, the clock, ffmpeg and ffprobe *)

RECURSIVE ancestors(_)
\* the path and every directory above it
ancestors(p) ==
    IF p = <<>> THEN {}
    ELSE IF dirname(p) = p THEN {p}
    ELSE {p} \cup ancestors(dirname(p))

\* os.makedirs(path, exist_ok=True) on the filesystem f
makedirs(f, path) ==
    LET need == ancestors(path)
    IN  IF \E q \in need : q \in DOMAIN f /\ f[q].kind = "file"
          THEN [exc |-> IF path \in DOMAIN f THEN "FileExistsError"
                        ELSE "NotADirectoryError",
                fs |-> f]
          ELSE [exc |-> "none",
                fs |-> [ q \in DOMAIN f \cup need |->
                           IF q \in DOMAIN f THEN f[q] ELSE Dir ]]

write_file(f, path, data) ==
    [ q \in DOMAIN f \cup {path} |-> IF q = path THEN File(data) ELSE f[q] ]

remove_file(f, path) == [ q \in DOMAIN f \ {path} |-> f[q] ]

\* shutil.rmtree(d): d and everything below it
rmtree(f, d) ==
    [ q \in { q \in DOMAIN f : ~(q = d \/ startswith(q, d \o <<"/">>)) } |-> f[q] ]

\* time.strftime("%Y%m%d-%H%M%S"): one name per second
strftime(c) == ToString(c)

\* f"part_{idx:03d}.mp4"
part_name(idx) == <<"part_", "0", "0", ToString(idx)>> \o Mp4

\* tempfile.TemporaryDirectory(prefix="quiclip_"): a name not used before
tmp_name(k) == P_tmp \o <<"/", "quiclip_", ToString(k)>>

ToolStates == {"ok", "broken", "missing"}
    \* ok: runs; broken: "-version" exits non-zero; missing: cannot be launched

NoErr == [type |-> "none", msg |-> <<>>]
Err(t, m) == [type |-> t, msg |-> m]

\* one subprocess that was started
Call(exe, kind, input, ss, t, output, read, returncode) ==
    [ exe |-> exe, kind |-> kind, input |-> input, ss |-> ss, t |-> t,
      output |-> output, read |-> read, returncode |-> returncode ]

\* ffmpeg_utils._run: subprocess.run raises when the program cannot be started
_run(exe, returncode, stderr) ==
    IF tool[exe] = "missing"
      THEN [exc |-> "FileNotFoundError", returncode |-> 127, stderr |-> <<>>]
      ELSE [exc |-> "none", returncode |-> returncode, stderr |-> stderr]

version_returncode(exe) == IF tool[exe] = "broken" THEN 1 ELSE 0

RECURSIVE ensure_loop(_, _)
ensure_loop(exes, calls) ==
    IF exes = <<>> THEN [calls |-> calls, err |-> NoErr]
    ELSE LET exe == Head(exes)
             p == _run(exe, version_returncode(exe), <<"no version: ", exe>>)
             made == Append(calls, Call(exe, "version", <<>>, 0, 0, <<>>, <<>>,
                                        p.returncode))
         IN  IF p.exc # "none" THEN [calls |-> calls, err |-> Err(p.exc, <<exe>>)]
             ELSE IF p.returncode # 0
               THEN [calls |-> made,
                     err |-> Err("FfmpegError", <<"not detected: ", exe>> \o p.stderr)]
             ELSE ensure_loop(Tail(exes), made)

\* the subprocesses it started, and the error it raised (NoErr: it returned)
ensure_ffmpeg_available == ensure_loop(<<"ffmpeg", "ffprobe">>, <<>>)

RECURSIVE replace_quote(_)
\* p.replace("'", "\\'")
replace_quote(s) ==
    IF s = <<>> THEN <<>>
    ELSE (IF Head(s) = "'" THEN <<"\\", "'">> ELSE <<Head(s)>>) \o replace_quote(Tail(s))

\* the lines written last input first
manifest_lines_reversed(inputs) ==
    [ k \in 1..Len(inputs) |->
        <<"file '">> \o replace_quote(inputs[Len(inputs) + 1 - k]) \o <<"'">> ]

\* the concat list file: one line  file '<escaped>'  per input, in order
manifest_lines(inputs) ==
    [ k \in 1..Len(inputs) |-> <<"file '">> \o replace_quote(inputs[k]) \o <<"'">> ]


-----------------------------------------------------------------------------
(* The pipeline: one frame per invocation (clip_merge.py, ffmpeg_utils.py) *)

Procs == {"p1", "p2"}

NoResult == [kind |-> "none", value |-> <<>>]
NoOutcome == [kind |-> "none", path |-> None, msg |-> <<>>, escaped |-> "none"]

IdleFrame ==
    [ pc |-> "idle",
      caller |-> "none",        \* clip_run, merge_run, or api (a direct caller)
      op |-> "none",            \* the service function the caller called
      fs0 |-> <<>>,             \* the filesystem when the call began
      segments |-> <<>>, video_paths |-> <<>>, output_dir |-> <<>>,
      output_path |-> <<>>,
      tmp |-> <<>>,             \* the TemporaryDirectory, once entered
      idx |-> 0, part_paths |-> <<>>,
      t_input |-> <<>>, t_start |-> 0, t_end |-> 0, t_output |-> <<>>,
      c_inputs |-> <<>>, c_output |-> <<>>, list_file |-> <<>>,
      returncode |-> 0, stderr |-> <<>>,
      remove_raised |-> FALSE,  \* os.remove(list_file) raised OSError
      mark |-> 0,               \* Len(calls) when the current stage was entered
      calls |-> <<>>,           \* the subprocesses started, in order
      err |-> NoErr,            \* the exception in flight
      result |-> NoResult,      \* how the service function ended
      outcome |-> NoOutcome ]   \* what the caller of the handler got

\* an exception leaves the stage: into the with-block's exit when inside it
raise(f, e) ==
    IF f.op = "clip_and_merge" /\ f.tmp # <<>>
      THEN [f EXCEPT !.err = e, !.pc = "cam_exit"]
      ELSE [f EXCEPT !.err = e, !.pc = "returned",
                     !.result = [kind |-> "raise", value |-> <<>>]]

Step(f, fsv) == [f |-> f, fs |-> fsv]

\* what one run of ffmpeg can do: exit status, stderr text, output written
StderrTexts == { <<"e1">>, <<"e2">> }
FfmpegOutcomes ==
    { [returncode |-> 0, stderr |-> <<>>, wrote |-> TRUE] }
    \cup { [returncode |-> 1, stderr |-> e, wrote |-> w] :
             e \in StderrTexts, w \in BOOLEAN }

(* clip_and_merge *)

\* the output directory made before the segment list is looked at
cam_enter_makedirs_first(f, fsv, now) ==
    LET md == makedirs(fsv, f.output_dir)
        out == join(f.output_dir, <<"quiclip-clip-", strftime(now)>> \o Mp4)
    IN  IF md.exc # "none" THEN Step(raise(f, Err(md.exc, f.output_dir)), fsv)
        ELSE IF f.segments = <<>>
          THEN Step(raise(f, Err("ValueError", <<"segment list is empty">>)), md.fs)
        ELSE Step([f EXCEPT !.output_path = out, !.pc = "cam_mktemp"], md.fs)

\* clip_and_merge, up to the with statement
cam_enter(f, fsv, now) ==
    LET md == makedirs(fsv, f.output_dir)
        out == join(f.output_dir, <<"quiclip-clip-", strftime(now)>> \o Mp4)
    IN  IF f.segments = <<>>
          THEN Step(raise(f, Err("ValueError", <<"segment list is empty">>)), fsv)
        ELSE IF md.exc # "none" THEN Step(raise(f, Err(md.exc, f.output_dir)), fsv)
        ELSE Step([f EXCEPT !.output_path = out, !.pc = "cam_mktemp"], md.fs)

\* with tempfile.TemporaryDirectory(prefix="quiclip_") as tmp
cam_mktemp(f, fsv, k) ==
    Step([f EXCEPT !.tmp = tmp_name(k), !.idx = 1, !.part_paths = <<>>,
                   !.pc = "cam_loop"],
         [ q \in DOMAIN fsv \cup {tmp_name(k)} |->
             IF q = tmp_name(k) THEN Dir ELSE fsv[q] ])

\* the for statement: the next segment's trim, or the concat after the last
cam_loop(f) ==
    IF f.idx <= Len(f.segments)
      THEN [f EXCEPT !.t_input = f.segments[f.idx].input_path,
                     !.t_start = f.segments[f.idx].start_sec,
                     !.t_end = f.segments[f.idx].end_sec,
                     !.t_output = join(f.tmp, part_name(f.idx)),
                     !.mark = Len(f.calls),
                     !.pc = "trim_ensure"]
      ELSE [f EXCEPT !.c_inputs = f.part_paths, !.c_output = f.output_path,
                     !.mark = Len(f.calls), !.pc = "concat_ensure"]

\* the directory removed by a statement after the loop, not by the with block
with_exit_on_success_only(f, fsv) == IF f.err = NoErr THEN rmtree(fsv, f.tmp) ELSE fsv

\* leaving the with block, normally or by an exception: the directory goes
with_exit(f, fsv) == rmtree(fsv, f.tmp)

cam_exit(f, fsv) ==
    Step(IF f.err # NoErr
           THEN [f EXCEPT !.pc = "returned",
                          !.result = [kind |-> "raise", value |-> <<>>]]
           ELSE [f EXCEPT !.pc = "returned",
                          !.result = [kind |-> "return", value |-> f.output_path]],
         with_exit(f, fsv))

(* merge_videos *)

mv_enter(f, fsv, now) ==
    LET md == makedirs(fsv, f.output_dir)
        out == join(f.output_dir, <<"quiclip-merge-", strftime(now)>> \o Mp4)
    IN  IF f.video_paths = <<>>
          THEN Step(raise(f, Err("ValueError", <<"video list is empty">>)), fsv)
        ELSE IF md.exc # "none" THEN Step(raise(f, Err(md.exc, f.output_dir)), fsv)
        ELSE Step([f EXCEPT !.output_path = out, !.c_inputs = f.video_paths,
                            !.c_output = out, !.mark = Len(f.calls),
                            !.pc = "concat_ensure"], md.fs)

(* fast_trim_to_mp4 *)

\* the call of ensure_ffmpeg_available that opens trim and concat
stage_ensure(f, next) ==
    LET e == ensure_ffmpeg_available
        g == [f EXCEPT !.calls = f.calls \o e.calls]
    IN  IF e.err # NoErr THEN raise(g, e.err) ELSE [g EXCEPT !.pc = next]

\* the comparison written with < in place of <=
trim_range_inverted_only(start_sec, end_sec) == end_sec < start_sec

trim_range_invalid(start_sec, end_sec) == end_sec <= start_sec

trim_check(f, fsv) ==
    LET md == makedirs(fsv, dirname(f.t_output))
    IN  IF trim_range_invalid(f.t_start, f.t_end)
          THEN Step(raise(f, Err("ValueError", <<"end must be after start">>)), fsv)
        ELSE IF md.exc # "none"
          THEN Step(raise(f, Err(md.exc, dirname(f.t_output))), fsv)
        ELSE Step([f EXCEPT !.pc = "trim_run"], md.fs)

\* fast_trim_to_mp4 returns None to its caller
trim_return(f) ==
    IF f.op = "clip_and_merge"
      THEN [f EXCEPT !.part_paths = Append(f.part_paths, f.t_output),
                     !.idx = f.idx + 1, !.pc = "cam_loop"]
      ELSE [f EXCEPT !.pc = "returned",
                     !.result = [kind |-> "return", value |-> None]]

\* ffmpeg can exit 0 only if it could read its input and write its output
trim_can_succeed(f, fsv) ==
    /\ f.t_input \in DOMAIN fsv /\ fsv[f.t_input].kind = "file"
    /\ dirname(f.t_output) \in DOMAIN fsv /\ fsv[dirname(f.t_output)].kind = "dir"

\* the failure of a trim swallowed: the loop goes on with the next segment
trim_run_goes_on(f, fsv, o) ==
    LET p == _run("ffmpeg", o.returncode, o.stderr)
        g == [f EXCEPT !.calls = Append(f.calls,
                         Call("ffmpeg", "trim", f.t_input, f.t_start,
                              f.t_end - f.t_start, f.t_output, <<>>,
                              p.returncode))]
        after == IF o.wrote THEN write_file(fsv, f.t_output, <<>>) ELSE fsv
    IN  IF p.exc # "none" THEN Step(raise(f, Err(p.exc, <<"ffmpeg">>)), fsv)
        ELSE Step(trim_return(g), after)

\* p = _run(cmd); if p.returncode != 0: raise FfmpegError
trim_run(f, fsv, o) ==
    LET p == _run("ffmpeg", o.returncode, o.stderr)
        g == [f EXCEPT !.calls = Append(f.calls,
                         Call("ffmpeg", "trim", f.t_input, f.t_start,
                              f.t_end - f.t_start, f.t_output, <<>>,
                              p.returncode))]
        after == IF o.wrote THEN write_file(fsv, f.t_output, <<>>) ELSE fsv
    IN  IF p.exc # "none" THEN Step(raise(f, Err(p.exc, <<"ffmpeg">>)), fsv)
        ELSE IF p.returncode # 0
          THEN Step(raise(g, Err("FfmpegError", <<"trim failed: ">> \o p.stderr)), after)
        ELSE Step(trim_return(g), after)

(* fast_concat_mp4 *)

concat_check(f, fsv) ==
    LET md == makedirs(fsv, dirname(f.c_output))
    IN  IF f.c_inputs = <<>>
          THEN Step(raise(f, Err("ValueError", <<"no input files">>)), fsv)
        ELSE IF md.exc # "none"
          THEN Step(raise(f, Err(md.exc, dirname(f.c_output))), fsv)
        ELSE Step([f EXCEPT !.pc = "concat_write"], md.fs)

\* list_file = output_path + ".txt", written line by line
concat_write(f, fsv) ==
    LET list_file == f.c_output \o <<".", "t", "x", "t">>
    IN  Step([f EXCEPT !.list_file = list_file, !.pc = "concat_run"],
             write_file(fsv, list_file, manifest_lines(f.c_inputs)))

concat_can_succeed(f, fsv) ==
    /\ f.list_file \in DOMAIN fsv
    /\ \A k \in 1..Len(f.c_inputs) :
         f.c_inputs[k] \in DOMAIN fsv /\ fsv[f.c_inputs[k]].kind = "file"

\* p = _run(cmd): ffmpeg reads the list file as it is now
concat_run(f, fsv, o) ==
    LET p == _run("ffmpeg", o.returncode, o.stderr)
        read == IF f.list_file \in DOMAIN fsv THEN fsv[f.list_file].data ELSE <<>>
        g == [f EXCEPT !.calls = Append(f.calls,
                         Call("ffmpeg", "concat", f.list_file, 0, 0, f.c_output, read,
                              p.returncode)),
                       !.returncode = p.returncode, !.stderr = p.stderr,
                       !.pc = "concat_cleanup"]
    IN  IF p.exc # "none" THEN Step(raise(f, Err(p.exc, <<"ffmpeg">>)), fsv)
        ELSE Step(g, IF o.wrote THEN write_file(fsv, f.c_output, read) ELSE fsv)

\* fast_concat_mp4 returns None to its caller
concat_return(f) ==
    IF f.op = "clip_and_merge" THEN [f EXCEPT !.pc = "cam_exit"]
    ELSE IF f.op = "merge_videos"
      THEN [f EXCEPT !.pc = "returned",
                     !.result = [kind |-> "return", value |-> f.output_path]]
    ELSE [f EXCEPT !.pc = "returned", !.result = [kind |-> "return", value |-> None]]

\* the removal placed after the returncode check: skipped when ffmpeg failed
remove_list_file_after_check(f, fsv, removed) ==
    IF f.returncode # 0 THEN Step(f, fsv)
    ELSE IF f.list_file \in DOMAIN fsv /\ removed
      THEN Step(f, remove_file(fsv, f.list_file))
    ELSE Step([f EXCEPT !.remove_raised = TRUE], fsv)

\* try: os.remove(list_file) / except OSError: pass.  removed: the unlink worked
remove_list_file(f, fsv, removed) ==
    IF f.list_file \in DOMAIN fsv /\ removed
      THEN Step(f, remove_file(fsv, f.list_file))
      ELSE Step([f EXCEPT !.remove_raised = TRUE], fsv)

\* the removal, and no look at the return code
concat_cleanup_ignores_returncode(f, fsv, removed) ==
    LET r == remove_list_file(f, fsv, removed)
    IN  Step(concat_return(r.f), r.fs)

\* the removal, then: if p.returncode != 0: raise FfmpegError
concat_cleanup(f, fsv, removed) ==
    LET r == remove_list_file(f, fsv, removed)
    IN  IF f.returncode # 0
          THEN Step(raise(r.f, Err("FfmpegError", <<"concat failed: ">> \o f.stderr)),
                    r.fs)
          ELSE Step(concat_return(r.f), r.fs)


-----------------------------------------------------------------------------
(* The run handlers of the two tabs, and direct callers of the services *)

\* every exception class of the model derives from Exception
Exceptions == { "ValueError", "FfmpegError", "TypeError", "FileNotFoundError",
                "FileExistsError", "NotADirectoryError" }

ClipSegment(input_path, start_sec, end_sec) ==
    [input_path |-> input_path, start_sec |-> start_sec, end_sec |-> end_sec]

\* fast clip _run, the try block up to the call of clip_and_merge
clip_run_call(segments, out_dir_value, fsv) ==
    [IdleFrame EXCEPT
        !.pc = "cam_enter", !.caller = "clip_run", !.op = "clip_and_merge",
        !.fs0 = fsv,
        !.output_dir = _safe_dir(out_dir_value),
        !.segments = [ k \in 1..Len(segments) |->
                         ClipSegment(segments[k].path, segments[k].start_sec,
                                     segments[k].end_sec) ]]

\* the handler without its last clause, except Exception
clip_run_except_narrow(f) ==
    IF f.result.kind = "return"
      THEN [kind |-> "pair", path |-> f.result.value,
            msg |-> <<"done: ">> \o relpath(f.result.value, media_root_abs),
            escaped |-> "none"]
    ELSE IF f.err.type \in {"FfmpegError", "ValueError"}
      THEN [kind |-> "pair", path |-> None, msg |-> <<"error: ">> \o f.err.msg,
            escaped |-> "none"]
    ELSE [kind |-> "fault", path |-> None, msg |-> f.err.msg,
          escaped |-> f.err.type]

\* fast clip _run, from the return of clip_and_merge: the pair it hands back
clip_run_except(f) ==
    IF f.result.kind = "return"
      THEN [kind |-> "pair", path |-> f.result.value,
            msg |-> <<"done: ">> \o relpath(f.result.value, media_root_abs),
            escaped |-> "none"]
    ELSE IF f.err.type \in {"FfmpegError", "ValueError"}
      THEN [kind |-> "pair", path |-> None, msg |-> <<"error: ">> \o f.err.msg,
            escaped |-> "none"]
    ELSE IF f.err.type \in Exceptions
      THEN [kind |-> "pair", path |-> None,
            msg |-> <<"unknown error: ">> \o f.err.msg, escaped |-> "none"]
    ELSE [kind |-> "fault", path |-> None, msg |-> f.err.msg,
          escaped |-> f.err.type]

\* merge _run, the try block up to the call of merge_videos
merge_run_call(videos, out_dir_value, fsv) ==
    [IdleFrame EXCEPT
        !.pc = "mv_enter", !.caller = "merge_run", !.op = "merge_videos",
        !.fs0 = fsv,
        !.video_paths = [ k \in 1..Len(videos) |-> videos[k].path ],
        !.output_dir = _safe_dir(out_dir_value)]

\* merge _run, from the return of merge_videos
merge_run_except(f) ==
    IF f.result.kind = "return"
      THEN [kind |-> "pair", path |-> f.result.value,
            msg |-> <<"done: ">> \o relpath(f.result.value, media_root_abs),
            escaped |-> "none"]
    ELSE IF f.err.type \in {"FfmpegError", "ValueError"}
      THEN [kind |-> "pair", path |-> None, msg |-> <<"error: ">> \o f.err.msg,
            escaped |-> "none"]
    ELSE IF f.err.type \in Exceptions
      THEN [kind |-> "pair", path |-> None,
            msg |-> <<"unknown error: ">> \o f.err.msg, escaped |-> "none"]
    ELSE [kind |-> "fault", path |-> None, msg |-> f.err.msg,
          escaped |-> f.err.type]

\* a direct caller gets the value, or the exception itself
api_outcome(f) ==
    IF f.result.kind = "return"
      THEN [kind |-> "value", path |-> f.result.value, msg |-> <<>>,
            escaped |-> "none"]
      ELSE [kind |-> "fault", path |-> None, msg |-> f.err.msg,
            escaped |-> f.err.type]

-----------------------------------------------------------------------------
(* Inputs of the model *)

Unset == <<"unset">>

\* list_video_files has not been called / it returned items
NotListed == [called |-> FALSE, items |-> <<>>]
Listed(items) == [called |-> TRUE, items |-> items]

\* one call of a list handler: the tab, the handler, its arguments, what it
\* handed back, and the caller's list object after the call
NoCall ==
    [ tab |-> "none", op |-> "none", input |-> <<>>, v |-> <<>>, start_sec |-> 0,
      end_sec |-> 0, idx |-> NoneInt, direction |-> 0, exc |-> "none",
      out |-> <<>>, rows |-> <<>>, selected |-> NoneInt, input_after |-> <<>> ]

BoundedSeqs(S, n) == UNION { [1..k -> S] : k \in 0..n }

\* seconds the sliders deliver
TimeValues == {0, 3}

\* operation indices the surface delivers: None, or an integer
IdxValues == {NoneInt} \cup { PyInt(n) : n \in (0 - 1)..(MaxList + 1) }

\* what the user picks in the file explorer
FileChoices == { None, P_x, P_y, P_sibx, P_txt, P_gone }

\* what the user types into an output directory textbox
TypedDirs == { <<>>, P_sub, P_sib, P_out, P_new, P_x }

\* The textboxes are not state of the model: a handler that reads one is
\* given any value the textbox can hold when the handler runs.
\* selected_file_path is read-only and holds what file_explorer.change put there.
SelectedFileValues == { _normalize_selected_file(v) : v \in FileChoices }

\* The output directory textbox holds its initial value, what
\* file_explorer.change or the merge tab's _add put there, or what was typed.
OutputDirValues ==
    {media_root_abs} \cup TypedDirs
    \cup { _default_out_dir_from_file(v) : v \in FileChoices }
    \cup { _add_out_dir(v) : v \in SelectedFileValues }

\* arguments of direct calls of the services
ApiSegments == { ClipSegment(P_x, 0, 3), ClipSegment(P_y, 0, 3),
                 ClipSegment(P_x, 3, 3) }
ApiPaths == { P_x, P_gone }
ApiOutDirs == { MEDIA_ROOT, P_new, P_x }
P_apiout == P_new \o <<"/", "o">> \o Mp4            \* /a/b/s/new/o.mp4

FsConfigs == { BaseFs, BaseFs @@ SiblingFs, BaseFs @@ OutsideFs, HostFs }

\* hosts: both programs run, or one of them is broken or missing
ToolConfigs ==
    { t \in [ffmpeg : ToolStates, ffprobe : ToolStates] :
        t.ffmpeg = "ok" \/ t.ffprobe = "ok" }

-----------------------------------------------------------------------------
(* State *)

hostVars == << fs, tool, clock, ntmp, runs >>
clipVars == << state_segments, segments_df >>
mergeVars == << state_videos, state_selected, videos_df >>
probeVars == << path_value, resolved, safe, listing, last >>

\* no invocation is under way: the surface takes the next event
Quiet == \A p \in Procs : inv[p].pc = "idle"

InitSession ==
    /\ clock = 0 /\ ntmp = 0 /\ runs = 0
    /\ state_segments = <<>> /\ segments_df = <<>>
    /\ state_videos = <<>> /\ state_selected = NoneInt /\ videos_df = <<>>
    /\ fault = "none"
    /\ inv = [p \in Procs |-> IdleFrame]

Init ==
    /\ tab \in {"clip", "merge", "api"}
    /\ fs = HostFs
    /\ tool \in ToolConfigs
    /\ InitSession
    /\ path_value = Unset /\ resolved = Unset /\ safe = Unset
    /\ listing = NotListed /\ last = NoCall

\* the path functions alone, on every candidate and several hosts
InitPaths ==
    /\ tab = "paths"
    /\ fs \in FsConfigs
    /\ tool = [ffmpeg |-> "ok", ffprobe |-> "ok"]
    /\ InitSession
    /\ path_value \in Candidates /\ resolved = Unset /\ safe = Unset
    /\ listing = NotListed /\ last = NoCall

-----------------------------------------------------------------------------
(* Actions: the path functions applied *)

ResolveSelectedPath ==
    /\ tab = "paths"
    /\ resolved' = _resolve_selected_path(path_value)
    /\ UNCHANGED << hostVars, tab, clipVars, mergeVars, fault, inv, path_value, safe,
                    listing, last >>

SafeDir ==
    /\ tab = "paths"
    /\ safe' = _safe_dir(path_value)
    /\ UNCHANGED << hostVars, tab, clipVars, mergeVars, fault, inv, path_value,
                    resolved, listing, last >>

\* list_video_files(MEDIA_ROOT, relative_dir), relative_dir a str
ListVideoFiles ==
    /\ tab = "paths"
    /\ path_value # None
    /\ listing' = Listed(list_video_files(MEDIA_ROOT, path_value))
    /\ UNCHANGED << hostVars, tab, clipVars, mergeVars, fault, inv, path_value,
                    resolved, safe, last >>

-----------------------------------------------------------------------------
(* Actions: the fast clip tab *)

\* a handler that raises leaves its outputs as they were
ClipOutputs(r) ==
    IF r.exc # "none"
      THEN fault' = r.exc /\ UNCHANGED << state_segments, segments_df >>
      ELSE fault' = "none" /\ state_segments' = r.list /\ segments_df' = r.rows

ClipAdd(v, start_sec, end_sec) ==
    LET r == _add_segment(v, start_sec, end_sec, state_segments)
    IN  /\ tab = "clip" /\ Quiet
        /\ Len(r.list) <= MaxList
        /\ ClipOutputs(r)
        /\ UNCHANGED << hostVars, tab, mergeVars, inv, probeVars >>

ClipMove(idx, direction) ==
    /\ tab = "clip" /\ Quiet
    /\ ClipOutputs(clip_move(state_segments, idx, direction))
    /\ UNCHANGED << hostVars, tab, mergeVars, inv, probeVars >>

ClipDelete(idx) ==
    /\ tab = "clip" /\ Quiet
    /\ ClipOutputs(clip_delete(state_segments, idx))
    /\ UNCHANGED << hostVars, tab, mergeVars, inv, probeVars >>

ClipClear ==
    /\ tab = "clip" /\ Quiet
    /\ ClipOutputs(clip_clear)
    /\ UNCHANGED << hostVars, tab, mergeVars, inv, probeVars >>

ClipRun(p, out_dir_value) ==
    /\ tab = "clip" /\ Quiet /\ runs < MaxRuns
    /\ inv' = [inv EXCEPT ![p] = clip_run_call(state_segments, out_dir_value, fs)]
    /\ runs' = runs + 1
    /\ UNCHANGED << fs, tool, clock, ntmp, tab, clipVars, mergeVars, fault, probeVars >>

-----------------------------------------------------------------------------
(* Actions: the merge tab *)

MergeOutputs(r) ==
    IF r.exc # "none"
      THEN fault' = r.exc /\ UNCHANGED << state_videos, videos_df, state_selected >>
      ELSE /\ fault' = "none" /\ state_videos' = r.list /\ videos_df' = r.rows
           /\ state_selected' = r.selected

\* add_btn.click: the list, the rows and the selection; its fourth output,
\* _add_out_dir, goes to the output directory textbox (OutputDirValues)
MergeAdd(v) ==
    LET r == _add(v, state_videos)
    IN  /\ tab = "merge" /\ Quiet
        /\ Len(r.list) <= MaxList
        /\ MergeOutputs(r)
        /\ UNCHANGED << hostVars, tab, clipVars, inv, probeVars >>

\* videos_df.select on an existing row
MergeSelectRow(row) ==
    /\ tab = "merge" /\ Quiet
    /\ row \in 0..(Len(state_videos) - 1)
    /\ state_selected' = _select_row(row)
    /\ UNCHANGED << hostVars, tab, clipVars, state_videos, videos_df, fault, inv,
                    probeVars >>

MergeMove(direction) ==
    /\ tab = "merge" /\ Quiet
    /\ MergeOutputs(merge_move(state_videos, state_selected, direction))
    /\ UNCHANGED << hostVars, tab, clipVars, inv, probeVars >>

MergeDelete ==
    /\ tab = "merge" /\ Quiet
    /\ MergeOutputs(merge_delete(state_videos, state_selected))
    /\ UNCHANGED << hostVars, tab, clipVars, inv, probeVars >>

MergeClear ==
    /\ tab = "merge" /\ Quiet
    /\ MergeOutputs(merge_clear)
    /\ UNCHANGED << hostVars, tab, clipVars, inv, probeVars >>

MergeRun(p, out_dir_value) ==
    /\ tab = "merge" /\ Quiet /\ runs < MaxRuns
    /\ inv' = [inv EXCEPT ![p] = merge_run_call(state_videos, out_dir_value, fs)]
    /\ runs' = runs + 1
    /\ UNCHANGED << fs, tool, clock, ntmp, tab, clipVars, mergeVars, fault, probeVars >>

-----------------------------------------------------------------------------
(* Actions: direct calls of the services *)

ApiStart(p, f) ==
    /\ tab = "api" /\ Quiet /\ runs < MaxRuns
    /\ inv' = [inv EXCEPT ![p] = [f EXCEPT !.caller = "api", !.fs0 = fs]]
    /\ runs' = runs + 1
    /\ UNCHANGED << fs, tool, clock, ntmp, tab, clipVars, mergeVars, fault, probeVars >>

ApiClipAndMerge(p, segments, dir) ==
    ApiStart(p, [IdleFrame EXCEPT !.pc = "cam_enter", !.op = "clip_and_merge",
                                  !.segments = segments, !.output_dir = dir])

ApiMergeVideos(p, video_paths, dir) ==
    ApiStart(p, [IdleFrame EXCEPT !.pc = "mv_enter", !.op = "merge_videos",
                                  !.video_paths = video_paths, !.output_dir = dir])

ApiTrim(p, seg, output_path) ==
    ApiStart(p, [IdleFrame EXCEPT !.pc = "trim_ensure", !.op = "fast_trim_to_mp4",
                                  !.t_input = seg.input_path, !.t_start = seg.start_sec,
                                  !.t_end = seg.end_sec, !.t_output = output_path])

ApiConcat(p, inputs, output_path) ==
    ApiStart(p, [IdleFrame EXCEPT !.pc = "concat_ensure", !.op = "fast_concat_mp4",
                                  !.c_inputs = inputs, !.c_output = output_path])

-----------------------------------------------------------------------------
(* Actions: the steps of an invocation *)

\* a step that changes the frame and the filesystem
Does(p, r) ==
    /\ inv' = [inv EXCEPT ![p] = r.f]
    /\ fs' = r.fs
    /\ UNCHANGED << tool, clock, ntmp, runs, tab, clipVars, mergeVars, fault, probeVars >>

CamEnter(p) ==
    /\ inv[p].pc = "cam_enter"
    /\ Does(p, cam_enter(inv[p], fs, clock))

CamMkdtemp(p) ==
    /\ inv[p].pc = "cam_mktemp"
    /\ inv' = [inv EXCEPT ![p] = cam_mktemp(inv[p], fs, ntmp).f]
    /\ fs' = cam_mktemp(inv[p], fs, ntmp).fs
    /\ ntmp' = ntmp + 1
    /\ UNCHANGED << tool, clock, runs, tab, clipVars, mergeVars, fault, probeVars >>

CamLoop(p) ==
    /\ inv[p].pc = "cam_loop"
    /\ Does(p, Step(cam_loop(inv[p]), fs))

CamExit(p) ==
    /\ inv[p].pc = "cam_exit"
    /\ Does(p, cam_exit(inv[p], fs))

MvEnter(p) ==
    /\ inv[p].pc = "mv_enter"
    /\ Does(p, mv_enter(inv[p], fs, clock))

TrimEnsure(p) ==
    /\ inv[p].pc = "trim_ensure"
    /\ Does(p, Step(stage_ensure(inv[p], "trim_check"), fs))

TrimCheck(p) ==
    /\ inv[p].pc = "trim_check"
    /\ Does(p, trim_check(inv[p], fs))

TrimRun(p, o) ==
    /\ inv[p].pc = "trim_run"
    /\ o.returncode = 0 => trim_can_succeed(inv[p], fs)
    /\ Does(p, trim_run(inv[p], fs, o))

ConcatEnsure(p) ==
    /\ inv[p].pc = "concat_ensure"
    /\ Does(p, Step(stage_ensure(inv[p], "concat_check"), fs))

ConcatCheck(p) ==
    /\ inv[p].pc = "concat_check"
    /\ Does(p, concat_check(inv[p], fs))

ConcatWrite(p) ==
    /\ inv[p].pc = "concat_write"
    /\ Does(p, concat_write(inv[p], fs))

ConcatRun(p, o) ==
    /\ inv[p].pc = "concat_run"
    /\ o.returncode = 0 => concat_can_succeed(inv[p], fs)
    /\ Does(p, concat_run(inv[p], fs, o))

ConcatCleanup(p, removed) ==
    /\ inv[p].pc = "concat_cleanup"
    /\ Does(p, concat_cleanup(inv[p], fs, removed))

\* control is back in the caller of the service function
Handler(p) ==
    /\ inv[p].pc = "returned"
    /\ Does(p, Step([inv[p] EXCEPT
                       !.pc = "done",
                       !.outcome = IF inv[p].caller = "clip_run"
                                     THEN clip_run_except(inv[p])
                                   ELSE IF inv[p].caller = "merge_run"
                                     THEN merge_run_except(inv[p])
                                   ELSE api_outcome(inv[p])], fs))

\* the event is over: the surface takes the next one
Finish(p) ==
    /\ inv[p].pc = "done"
    /\ Does(p, Step(IdleFrame, fs))

\* a second passes; the clock is read on entry of clip_and_merge and merge_videos
Tick ==
    /\ clock < MaxClock
    /\ \E p \in Procs : inv[p].pc \in {"cam_enter", "mv_enter"}
    /\ clock' = clock + 1
    /\ UNCHANGED << fs, tool, ntmp, runs, tab, clipVars, mergeVars, fault, inv,
                    probeVars >>

-----------------------------------------------------------------------------
(* Actions: the list handlers called as functions on the session's lists *)

pathVars == << path_value, resolved, safe, listing >>

\* seconds a caller can pass: the sliders' values, and a negative one
CallTimeValues == {0 - 1, 0, 3}

\* path values a caller can pass
CallFileValues == { None, P_x, P_y, P_txt }

Called(t, op, input, v, start_sec, end_sec, idx, direction, r) ==
    [ tab |-> t, op |-> op, input |-> input, v |-> v, start_sec |-> start_sec,
      end_sec |-> end_sec, idx |-> idx, direction |-> direction, exc |-> r.exc,
      out |-> r.list, rows |-> r.rows, selected |-> r.selected,
      input_after |-> caller_list_after(input, r) ]

ClipAddCall(v, start_sec, end_sec) ==
    LET r == _add_segment(v, start_sec, end_sec, state_segments)
    IN  /\ tab = "clip_lists"
        /\ Len(r.list) <= MaxList
        /\ ClipOutputs(r)
        /\ last' = Called("clip", "add", state_segments, v, start_sec, end_sec,
                          NoneInt, 0, r)
        /\ UNCHANGED << hostVars, tab, mergeVars, inv, pathVars >>

ClipMoveCall(idx, direction) ==
    LET r == clip_move(state_segments, idx, direction)
    IN  /\ tab = "clip_lists"
        /\ ClipOutputs(r)
        /\ last' = Called("clip", "move", state_segments, <<>>, 0, 0, idx,
                          direction, r)
        /\ UNCHANGED << hostVars, tab, mergeVars, inv, pathVars >>

ClipDeleteCall(idx) ==
    LET r == clip_delete(state_segments, idx)
    IN  /\ tab = "clip_lists"
        /\ ClipOutputs(r)
        /\ last' = Called("clip", "delete", state_segments, <<>>, 0, 0, idx, 0, r)
        /\ UNCHANGED << hostVars, tab, mergeVars, inv, pathVars >>

\* _clear takes no list: the caller's list is not within its reach
ClipClearCall ==
    /\ tab = "clip_lists"
    /\ ClipOutputs(clip_clear)
    /\ last' = [ Called("clip", "clear", state_segments, <<>>, 0, 0, NoneInt, 0,
                        clip_clear) EXCEPT !.input_after = state_segments ]
    /\ UNCHANGED << hostVars, tab, mergeVars, inv, pathVars >>

MergeAddCall(v) ==
    LET r == _add(v, state_videos)
    IN  /\ tab = "merge_lists"
        /\ Len(r.list) <= MaxList
        /\ MergeOutputs(r)
        /\ last' = Called("merge", "add", state_videos, v, 0, 0, NoneInt, 0, r)
        /\ UNCHANGED << hostVars, tab, clipVars, inv, pathVars >>

MergeMoveCall(selected, direction) ==
    LET r == merge_move(state_videos, selected, direction)
    IN  /\ tab = "merge_lists"
        /\ MergeOutputs(r)
        /\ last' = Called("merge", "move", state_videos, <<>>, 0, 0, selected,
                          direction, r)
        /\ UNCHANGED << hostVars, tab, clipVars, inv, pathVars >>

MergeDeleteCall(selected) ==
    LET r == merge_delete(state_videos, selected)
    IN  /\ tab = "merge_lists"
        /\ MergeOutputs(r)
        /\ last' = Called("merge", "delete", state_videos, <<>>, 0, 0, selected, 0, r)
        /\ UNCHANGED << hostVars, tab, clipVars, inv, pathVars >>

MergeClearCall ==
    /\ tab = "merge_lists"
    /\ MergeOutputs(merge_clear)
    /\ last' = [ Called("merge", "clear", state_videos, <<>>, 0, 0, NoneInt, 0,
                        merge_clear) EXCEPT !.input_after = state_videos ]
    /\ UNCHANGED << hostVars, tab, clipVars, inv, pathVars >>

-----------------------------------------------------------------------------
(* Actions: two callers of the services whose invocations may overlap *)

\* the first invocation runs in p1, the second in p2; the second may begin
\* at any moment after the first began
OverlapCaller == IF runs = 0 THEN "p1" ELSE "p2"

OverlapSegments == { <<ClipSegment(P_x, 0, 3)>>, <<ClipSegment(P_y, 0, 3)>> }
OverlapPaths == { <<P_x>>, <<P_y, P_x>> }
OverlapOutDirs == { MEDIA_ROOT, P_sub }

\* ffmpeg exits with 0 and writes its output, or fails and writes nothing
OverlapOutcomes == { o \in FfmpegOutcomes : o.stderr # <<"e2">> /\ (o.wrote <=> o.returncode = 0) }

OverlapStart(p, f) ==
    /\ tab = "overlap" /\ runs < MaxOverlap
    /\ p = OverlapCaller /\ inv[p].pc = "idle"
    /\ inv' = [inv EXCEPT ![p] = [f EXCEPT !.caller = "api", !.fs0 = fs]]
    /\ runs' = runs + 1
    /\ UNCHANGED << fs, tool, clock, ntmp, tab, clipVars, mergeVars, fault, probeVars >>

OverlapClipAndMerge(p, segments, dir) ==
    OverlapStart(p, [IdleFrame EXCEPT !.pc = "cam_enter", !.op = "clip_and_merge",
                                      !.segments = segments, !.output_dir = dir])

OverlapMergeVideos(p, video_paths, dir) ==
    OverlapStart(p, [IdleFrame EXCEPT !.pc = "mv_enter", !.op = "merge_videos",
                                      !.video_paths = video_paths, !.output_dir = dir])

-----------------------------------------------------------------------------
(* Actions: the merge tab's events, with the stored selection *)

\* add_btn.click (merge_tab.py 165-169)
AddBtnClick(v) ==
    LET r == _add(v, state_videos)
    IN  /\ tab = "merge_events"
        /\ Len(r.list) <= MaxVideos
        /\ MergeOutputs(r)
        /\ last' = Called("merge_events", "add", state_videos, v, 0, 0,
                          state_selected, 0, r)
        /\ UNCHANGED << hostVars, tab, clipVars, inv, pathVars >>

\* videos_df.select on an existing row: only the selection is an output
VideosDfSelect(row) ==
    /\ tab = "merge_events"
    /\ row \in 0..(Len(state_videos) - 1)
    /\ state_selected' = _select_row(row)
    /\ last' = Called("merge_events", "select", state_videos, <<>>, 0, 0,
                      state_selected, 0,
                      Returned(state_videos, videos_df, _select_row(row)))
    /\ UNCHANGED << hostVars, tab, clipVars, state_videos, videos_df, fault, inv,
                    pathVars >>

\* up_btn.click / down_btn.click: _move on the stored list and selection
UpDownBtnClick(direction) ==
    LET r == merge_move(state_videos, state_selected, direction)
    IN  /\ tab = "merge_events"
        /\ MergeOutputs(r)
        /\ last' = Called("merge_events", "move", state_videos, <<>>, 0, 0,
                          state_selected, direction, r)
        /\ UNCHANGED << hostVars, tab, clipVars, inv, pathVars >>

\* del_btn.click
DelBtnClick ==
    LET r == merge_delete(state_videos, state_selected)
    IN  /\ tab = "merge_events"
        /\ MergeOutputs(r)
        /\ last' = Called("merge_events", "delete", state_videos, <<>>, 0, 0,
                          state_selected, 0, r)
        /\ UNCHANGED << hostVars, tab, clipVars, inv, pathVars >>

\* clear_btn.click
ClearBtnClick ==
    /\ tab = "merge_events"
    /\ MergeOutputs(merge_clear)
    /\ last' = [ Called("merge_events", "clear", state_videos, <<>>, 0, 0,
                        state_selected, 0, merge_clear)
                 EXCEPT !.input_after = state_videos ]
    /\ UNCHANGED << hostVars, tab, clipVars, inv, pathVars >>

-----------------------------------------------------------------------------
(* Specifications *)

\* the invocation of a session: handled to completion before the next event
Main == "p1"

PipelineStep(p) ==
    \/ CamEnter(p) \/ CamMkdtemp(p) \/ CamLoop(p) \/ CamExit(p) \/ MvEnter(p)
    \/ TrimEnsure(p) \/ TrimCheck(p)
    \/ \E o \in FfmpegOutcomes : TrimRun(p, o)
    \/ ConcatEnsure(p) \/ ConcatCheck(p) \/ ConcatWrite(p)
    \/ \E o \in FfmpegOutcomes : ConcatRun(p, o)
    \/ \E removed \in BOOLEAN : ConcatCleanup(p, removed)
    \/ Handler(p) \/ Finish(p)

ClipNext ==
    \/ \E v \in SelectedFileValues, s \in TimeValues, e \in TimeValues : ClipAdd(v, s, e)
    \/ \E idx \in IdxValues, d \in {0 - 1, 1} : ClipMove(idx, d)
    \/ \E idx \in IdxValues : ClipDelete(idx)
    \/ ClipClear
    \/ \E v \in OutputDirValues : ClipRun(Main, v)

MergeNext ==
    \/ \E v \in SelectedFileValues : MergeAdd(v)
    \/ \E row \in 0..(MaxList - 1) : MergeSelectRow(row)
    \/ \E d \in {0 - 1, 1} : MergeMove(d)
    \/ MergeDelete
    \/ MergeClear
    \/ \E v \in OutputDirValues : MergeRun(Main, v)

ApiNext ==
    \/ \E segs \in BoundedSeqs(ApiSegments, MaxList), d \in ApiOutDirs :
         ApiClipAndMerge(Main, segs, d)
    \/ \E paths \in BoundedSeqs(ApiPaths, MaxList), d \in ApiOutDirs :
         ApiMergeVideos(Main, paths, d)
    \/ \E seg \in ApiSegments : ApiTrim(Main, seg, P_apiout)
    \/ \E paths \in BoundedSeqs(ApiPaths, MaxList) : ApiConcat(Main, paths, P_apiout)

Next ==
    \/ ClipNext
    \/ MergeNext
    \/ ApiNext
    \/ \E p \in Procs : PipelineStep(p)
    \/ Tick

Spec == Init /\ [][Next]_vars

NextPaths == ResolveSelectedPath \/ SafeDir \/ ListVideoFiles

SpecPaths == InitPaths /\ [][NextPaths]_vars

\* the list handlers alone, from the empty lists of a new session
InitLists ==
    /\ tab \in {"clip_lists", "merge_lists"}
    /\ fs = HostFs
    /\ tool = [ffmpeg |-> "ok", ffprobe |-> "ok"]
    /\ InitSession
    /\ path_value = Unset /\ resolved = Unset /\ safe = Unset
    /\ listing = NotListed /\ last = NoCall

NextLists ==
    \/ \E v \in CallFileValues, s \in CallTimeValues, e \in CallTimeValues :
         ClipAddCall(v, s, e)
    \/ \E idx \in IdxValues, d \in {0 - 1, 1} : ClipMoveCall(idx, d)
    \/ \E idx \in IdxValues : ClipDeleteCall(idx)
    \/ ClipClearCall
    \/ \E v \in CallFileValues : MergeAddCall(v)
    \/ \E idx \in IdxValues, d \in {0 - 1, 1} : MergeMoveCall(idx, d)
    \/ \E idx \in IdxValues : MergeDeleteCall(idx)
    \/ MergeClearCall

SpecLists == InitLists /\ [][NextLists]_vars

\* the merge tab's list and selection alone, from a new session
InitMerge ==
    /\ tab = "merge_events"
    /\ fs = HostFs
    /\ tool = [ffmpeg |-> "ok", ffprobe |-> "ok"]
    /\ InitSession
    /\ path_value = Unset /\ resolved = Unset /\ safe = Unset
    /\ listing = NotListed /\ last = NoCall

NextMerge ==
    \/ \E v \in SelectedFileValues : AddBtnClick(v)
    \/ \E row \in 0..(MaxVideos - 1) : VideosDfSelect(row)
    \/ \E d \in {0 - 1, 1} : UpDownBtnClick(d)
    \/ DelBtnClick
    \/ ClearBtnClick

SpecMerge == InitMerge /\ [][NextMerge]_vars

\* two invocations of the services, their steps interleaved in any order
InitOverlap ==
    /\ tab = "overlap"
    /\ fs = HostFs
    /\ tool = [ffmpeg |-> "ok", ffprobe |-> "ok"]
    /\ InitSession
    /\ path_value = Unset /\ resolved = Unset /\ safe = Unset
    /\ listing = NotListed /\ last = NoCall

OverlapStep(p) ==
    \/ CamEnter(p) \/ CamMkdtemp(p) \/ CamLoop(p) \/ CamExit(p) \/ MvEnter(p)
    \/ TrimEnsure(p) \/ TrimCheck(p)
    \/ \E o \in OverlapOutcomes : TrimRun(p, o)
    \/ ConcatEnsure(p) \/ ConcatCheck(p) \/ ConcatWrite(p)
    \/ \E o \in OverlapOutcomes : ConcatRun(p, o)
    \/ \E removed \in BOOLEAN : ConcatCleanup(p, removed)
    \/ Handler(p)

NextOverlap ==
    \/ \E p \in Procs, segs \in OverlapSegments, d \in OverlapOutDirs :
         OverlapClipAndMerge(p, segs, d)
    \/ \E p \in Procs, paths \in OverlapPaths, d \in OverlapOutDirs :
         OverlapMergeVideos(p, paths, d)
    \/ \E p \in Procs : OverlapStep(p)
    \/ Tick

SpecOverlap == InitOverlap /\ [][NextOverlap]_vars

-----------------------------------------------------------------------------
(* Properties *)

\* the service function of frame f has handed control back to its caller
Terminated(f) == f.pc \in {"returned", "done"}

ToolsOk == tool.ffmpeg = "ok" /\ tool.ffprobe = "ok"

OfKind(calls, kind) == SelectSeq(calls, LAMBDA c : c.kind = kind)

VersionCalls ==
    << Call("ffmpeg", "version", <<>>, 0, 0, <<>>, <<>>, 0),
       Call("ffprobe", "version", <<>>, 0, 0, <<>>, <<>>, 0) >>

\* p is the directory root or lies below it, component by component
InsideRoot(p, root) ==
    LET pc == components(p)
        rc == components(root)
    IN  Len(rc) <= Len(pc) /\ SubSeq(pc, 1, Len(rc)) = rc

\* nothing is left at d or below it
Gone(d) == \A q \in DOMAIN fs : ~(q = d \/ startswith(q, d \o <<"/">>))

(* C1: for every candidate path, _resolve_selected_path returns a match if and
   only if the path exists, is a regular file, has a recognized video
   extension and lies inside the media root as a path, component by
   component; /a/bc/x.mp4 under the root /a/b is to be rejected with None. *)
C1_ResolverMatchesIffInsideRoot ==
    resolved # Unset =>
        LET full == abspath(path_value)
        IN  (resolved # None) <=>
              /\ ~falsy(path_value)
              /\ exists(full) /\ isfile(full)
              /\ lower(splitext_ext(full)) \in VIDEO_EXTS
              /\ InsideRoot(full, media_root_abs)

(* C2: for every candidate value (empty, None, a directory, a file, a path
   that does not exist, a path outside the root) _safe_dir returns the media
   root or a directory inside it. *)
C2_SafeDirInsideRoot ==
    safe # Unset => InsideRoot(safe, media_root_abs)

(* C3: whenever clip_and_merge has terminated, by returning the output path
   or by an error of a trim or of the concat, the temporary directory it
   created and every part file in it are gone; they are gone already when
   the error reaches the caller. *)
C3_TmpRemovedOnEveryExit ==
    \A p \in Procs :
        (inv[p].op = "clip_and_merge" /\ Terminated(inv[p]) /\ inv[p].tmp # <<>>)
            => Gone(inv[p].tmp)

\* the second trim of two failed with the first part file already produced
C3_Witness ==
    \E p \in Procs :
        /\ inv[p].op = "clip_and_merge" /\ inv[p].pc = "returned"
        /\ inv[p].err.type = "FfmpegError"
        /\ Len(inv[p].segments) = 2 /\ inv[p].idx = 2
        /\ inv[p].part_paths = << join(inv[p].tmp, part_name(1)) >>
        /\ Len(OfKind(inv[p].calls, "trim")) = 2
        /\ Gone(inv[p].tmp)

(* C4: in clip_and_merge the trims run once per segment in list order, the
   i-th writing the i-th numbered part file; the concat runs only after all n
   trims, and at most once; in a successful call there are exactly n trims
   and one concat, and the list file the concat read names the part files in
   the order of the segment list. *)
C4_TrimsInOrderThenOneConcat ==
    \A p \in Procs :
        inv[p].op = "clip_and_merge" =>
            LET f == inv[p]
                n == Len(f.segments)
                trims == OfKind(f.calls, "trim")
                concats == OfKind(f.calls, "concat")
                part(i) == f.tmp \o <<"/">> \o part_name(i)
            IN  /\ Len(trims) <= n
                /\ \A i \in 1..Len(trims) :
                     /\ trims[i].input = f.segments[i].input_path
                     /\ trims[i].ss = f.segments[i].start_sec
                     /\ trims[i].t = f.segments[i].end_sec - f.segments[i].start_sec
                     /\ trims[i].output = part(i)
                /\ Len(concats) <= 1
                /\ Len(concats) = 1 =>
                     /\ Len(trims) = n
                     /\ f.calls[Len(f.calls)].kind = "concat"
                     /\ concats[1].output = f.output_path
                     /\ concats[1].read =
                          [ i \in 1..n |-> <<"file '">> \o part(i) \o <<"'">> ]
                /\ (Terminated(f) /\ f.result.kind = "return") =>
                     /\ Len(trims) = n /\ Len(concats) = 1
                     /\ trims[1].output = part(1)

\* a successful call on two segments of different files
C4_Witness ==
    \E p \in Procs :
        /\ inv[p].op = "clip_and_merge" /\ inv[p].pc = "returned"
        /\ inv[p].result.kind = "return"
        /\ Len(inv[p].segments) = 2
        /\ inv[p].segments[1].input_path # inv[p].segments[2].input_path
        /\ Len(OfKind(inv[p].calls, "concat")) = 1

(* C5, as stated: a trim request with end_sec <= start_sec is rejected with a
   validation error before any subprocess is started: no subprocess call is
   made. Stated for a host on which both programs run. *)
C5_RejectedWithZeroSubprocessCalls ==
    \A p \in Procs :
        ( /\ inv[p].op = "fast_trim_to_mp4" /\ Terminated(inv[p])
          /\ inv[p].t_end <= inv[p].t_start /\ ToolsOk )
            => inv[p].err.type = "ValueError" /\ inv[p].calls = <<>>

(* C5, amended: a trim request with end_sec <= start_sec never starts the
   ffmpeg trim command. The availability check comes first: when ffmpeg
   -version and ffprobe -version both succeed the request is rejected with
   ValueError after exactly these two subprocesses, and otherwise it fails
   with the error of the availability check. *)
C5_RejectedBeforeTrimCommand ==
    \A p \in Procs :
        /\ \A k \in 1..Len(inv[p].calls) :
             inv[p].calls[k].kind = "trim" => inv[p].calls[k].t > 0
        /\ ( /\ inv[p].op = "fast_trim_to_mp4" /\ Terminated(inv[p])
             /\ inv[p].t_end <= inv[p].t_start )
               => /\ OfKind(inv[p].calls, "trim") = <<>>
                  /\ inv[p].result.kind = "raise"
                  /\ IF ToolsOk
                       THEN /\ inv[p].err.type = "ValueError"
                            /\ inv[p].calls = VersionCalls
                       ELSE /\ inv[p].err.type \in {"FfmpegError", "FileNotFoundError"}
                            /\ Len(inv[p].calls) <= 2

\* start_sec = 3, end_sec = 3 on a host with both programs
C5_Witness ==
    \E p \in Procs :
        /\ inv[p].op = "fast_trim_to_mp4" /\ inv[p].pc = "returned"
        /\ inv[p].t_start = 3 /\ inv[p].t_end = 3
        /\ inv[p].err.type = "ValueError"
        /\ Len(inv[p].calls) = 2

(* C6: clip_and_merge called with an empty segment list, and merge_videos
   with an empty path list, fail with ValueError and without side effects:
   no output file and no output directory is created, no temporary directory
   is created, and no subprocess is started. *)
C6_EmptyListFailsWithoutSideEffects ==
    \A p \in Procs :
        ( /\ Terminated(inv[p])
          /\ \/ inv[p].op = "clip_and_merge" /\ inv[p].segments = <<>>
             \/ inv[p].op = "merge_videos" /\ inv[p].video_paths = <<>> )
            => /\ inv[p].result.kind = "raise"
               /\ inv[p].err.type = "ValueError"
               /\ inv[p].calls = <<>>
               /\ inv[p].tmp = <<>>
               /\ inv[p].list_file = <<>>
               /\ fs = inv[p].fs0

\* the empty list with an output directory that does not exist yet
C6_Witness ==
    \E p \in Procs :
        /\ inv[p].op = "clip_and_merge" /\ inv[p].segments = <<>>
        /\ inv[p].pc = "returned"
        /\ inv[p].output_dir = P_new /\ P_new \notin DOMAIN fs

(* C7, as stated: on every path on which the list file of the concat was
   written, it no longer exists when fast_concat_mp4 has handed control back
   to its caller, by return or by error. *)
C7_ManifestAlwaysRemoved ==
    \A p \in Procs :
        ( /\ inv[p].list_file # <<>>
          /\ inv[p].pc \in {"cam_exit", "returned", "done"} )
            => inv[p].list_file \notin DOMAIN fs

(* C7, amended: when the concat subprocess of merge_videos exits non-zero the
   caller receives FfmpegError carrying the tool's stderr text; and once the
   concat subprocess has completed, with any exit status, the list file no
   longer exists when fast_concat_mp4 hands control back, unless os.remove
   raised OSError, which is swallowed and leaves the file behind. *)
C7_ManifestRemovedUnlessRemoveFails ==
    \A p \in Procs :
        LET f == inv[p]
        IN  /\ ( /\ f.list_file # <<>>
                 /\ f.pc \in {"cam_exit", "returned", "done"}
                 /\ OfKind(f.calls, "concat") # <<>> )
                   => (f.list_file \in DOMAIN fs <=> f.remove_raised)
            /\ ( /\ f.op = "merge_videos" /\ Terminated(f)
                 /\ OfKind(f.calls, "concat") # <<>>
                 /\ f.returncode # 0 )
                   => /\ f.result.kind = "raise"
                      /\ f.err.type = "FfmpegError"
                      /\ f.stderr \in StderrTexts
                      /\ Len(f.err.msg) > Len(f.stderr)
                      /\ SubSeq(f.err.msg, Len(f.err.msg) - Len(f.stderr) + 1,
                                Len(f.err.msg)) = f.stderr

\* the concat of merge_videos failed and the list file was removed
C7_Witness ==
    \E p \in Procs :
        /\ inv[p].op = "merge_videos" /\ inv[p].pc = "returned"
        /\ inv[p].returncode # 0
        /\ inv[p].err.type = "FfmpegError"
        /\ inv[p].list_file # <<>> /\ inv[p].list_file \notin DOMAIN fs
        /\ ~inv[p].remove_raised

(* C8: when ffmpeg or ffprobe is not available, because it cannot be started
   at all or because its version check exits non-zero, fast_trim_to_mp4 and
   fast_concat_mp4 fail with FfmpegError and with no other kind of fault. *)
C8_UnavailableToolIsFfmpegError ==
    \A p \in Procs :
        ( /\ inv[p].op \in {"fast_trim_to_mp4", "fast_concat_mp4"}
          /\ Terminated(inv[p]) /\ ~ToolsOk )
            => inv[p].result.kind = "raise" /\ inv[p].err.type = "FfmpegError"

(* C9: the run handlers of both tabs let no fault escape: whatever the lists,
   the output directory value and the way the pipeline ended, they hand back
   the pair (output path, message) on success and (None, message) on
   failure. *)
C9_RunHandlersReturnPairs ==
    \A p \in Procs :
        (inv[p].pc = "done" /\ inv[p].caller \in {"clip_run", "merge_run"})
            => /\ inv[p].outcome.kind = "pair"
               /\ inv[p].outcome.escaped = "none"
               /\ inv[p].outcome.msg # <<>>
               /\ IF inv[p].result.kind = "return"
                    THEN /\ inv[p].outcome.path = inv[p].output_path
                         /\ inv[p].outcome.path # None
                         /\ inv[p].err = NoErr
                    ELSE /\ inv[p].outcome.path = None
                         /\ inv[p].err # NoErr

\* the fast clip handler caught an exception that is neither FfmpegError nor ValueError
C9_Witness ==
    \E p \in Procs :
        /\ inv[p].pc = "done" /\ inv[p].caller = "clip_run"
        /\ inv[p].err.type = "FileNotFoundError"
        /\ inv[p].outcome.kind = "pair" /\ inv[p].outcome.path = None

(* C10: add, move, delete and clear are total in both tabs: for every list
   and every index the surface can deliver, an integer in range or not, or
   None, the operation returns a list and its rows and never raises. *)
C10_ListOperationsNeverRaise ==
    fault = "none"


\* the index of the last call is an integer
LastInt == last.idx # NoneInt
LastI == last.idx[1]
LastN == Len(last.input)

(* C11: move(list, i, dir) returns a list equal to its input whenever i or
   i + dir is outside 1..len(list), and delete(list, i) whenever i is outside
   1..len(list): for i = 0, negative i, and any i on the empty list, in both
   tabs. *)
C11_OutOfRangeReturnsInput ==
    /\ (last.op = "move" /\ LastInt
          /\ (LastI \notin 1..LastN \/ LastI + last.direction \notin 1..LastN))
         => last.exc = "none" /\ last.out = last.input
    /\ (last.op = "delete" /\ LastInt /\ LastI \notin 1..LastN)
         => last.exc = "none" /\ last.out = last.input

\* the first of two different segments moved up
C11_Witness ==
    /\ last.tab = "clip" /\ last.op = "move"
    /\ last.idx = PyInt(1) /\ last.direction = 0 - 1
    /\ LastN = 2 /\ last.input[1] # last.input[2]
    /\ last.out = last.input

(* C12: move is its own inverse: for i and i + dir both in 1..len(list),
   moving the result at i + dir by -dir gives the original list again, and in
   the merge tab the selection handed back by the second move is i. *)
C12_MoveIsItsOwnInverse ==
    (last.op = "move" /\ LastInt /\ LastI \in 1..LastN
       /\ LastI + last.direction \in 1..LastN)
      => IF last.tab = "clip"
           THEN LET back == clip_move(last.out, PyInt(LastI + last.direction),
                                      0 - last.direction)
                IN  back.exc = "none" /\ back.list = last.input
           ELSE LET back == merge_move(last.out, PyInt(LastI + last.direction),
                                       0 - last.direction)
                IN  /\ back.exc = "none" /\ back.list = last.input
                    /\ last.selected = PyInt(LastI + last.direction)
                    /\ back.selected = PyInt(LastI)

\* two different videos changed places
C12_Witness ==
    /\ last.tab = "merge" /\ last.op = "move"
    /\ LastN = 2 /\ last.idx = PyInt(2) /\ last.direction = 0 - 1
    /\ last.out # last.input
    /\ last.out = << last.input[2], last.input[1] >>

(* C13: adding a segment with end_sec <= start_sec returns the segment list
   unchanged, and in every state reached by add, move, delete and clear every
   entry of the session's segment list has end_sec > start_sec. *)
C13_EverySegmentHasPositiveLength ==
    /\ \A k \in 1..Len(state_segments) :
         state_segments[k].end_sec > state_segments[k].start_sec
    /\ (last.tab = "clip" /\ last.op = "add" /\ last.end_sec <= last.start_sec)
         => last.exc = "none" /\ last.out = last.input

\* a degenerate range on a file that resolves, added to a list of one
C13_Witness ==
    /\ last.tab = "clip" /\ last.op = "add"
    /\ last.v = P_x /\ last.start_sec = 3 /\ last.end_sec = 3
    /\ LastN = 1 /\ last.out = last.input /\ state_segments = last.input

(* C14: in every state of the merge tab reached by add, move, delete and
   clear no two entries of the video list have the same path, and adding a
   path that is already in the list leaves the list unchanged. *)
C14_NoDuplicatePaths ==
    /\ \A j, k \in 1..Len(state_videos) :
         state_videos[j].path = state_videos[k].path => j = k
    /\ (last.tab = "merge" /\ last.op = "add"
          /\ \E k \in 1..LastN : last.input[k].path = _resolve_selected_path(last.v))
         => last.exc = "none" /\ last.out = last.input

\* the first of two videos added again
C14_Witness ==
    /\ last.tab = "merge" /\ last.op = "add"
    /\ LastN = 2 /\ last.input[1].path = P_x /\ last.v = P_x
    /\ state_videos = last.input

(* C16: after every list operation of either tab the rows handed back are
   the projection of the list handed back: len(list) rows, row k numbered k
   and describing the k-th entry, for segments with its start and end. *)
C16_RowsAreProjectionOfList ==
    (last.op # "none" /\ last.exc = "none")
      => /\ Len(last.rows) = Len(last.out)
         /\ \A k \in 1..Len(last.out) :
              /\ last.rows[k].num = k
              /\ last.rows[k].label = relpath(last.out[k].path, media_root_abs)
              /\ last.tab = "clip" =>
                   /\ last.rows[k].start = last.out[k].start_sec
                   /\ last.rows[k].end = last.out[k].end_sec
         /\ last.tab = "clip" => (state_segments = last.out /\ segments_df = last.rows)
         /\ last.tab = "merge" => (state_videos = last.out /\ videos_df = last.rows)

\* rows of two different segments after they changed places
C16_Witness ==
    /\ last.tab = "clip" /\ last.op = "move"
    /\ Len(last.out) = 2 /\ last.out # last.input
    /\ last.rows[1].label # last.rows[2].label
    /\ last.rows[2].num = 2

(* C18: delete(list, i) with i in 1..len(list) returns the input without its
   i-th entry, the others in their order; an add that succeeds returns the
   input with one new entry at the end. *)
C18_DeleteAndAddChangeOneEntry ==
    /\ (last.op = "delete" /\ LastInt /\ LastI \in 1..LastN)
         => /\ last.exc = "none"
            /\ Len(last.out) = LastN - 1
            /\ \A k \in 1..(LastI - 1) : last.out[k] = last.input[k]
            /\ \A k \in LastI..(LastN - 1) : last.out[k] = last.input[k + 1]
    /\ (last.op = "add" /\ _resolve_selected_path(last.v) # None
          /\ (last.tab = "clip" => last.end_sec > last.start_sec)
          /\ (last.tab = "merge" =>
                \A k \in 1..LastN :
                    last.input[k].path # _resolve_selected_path(last.v)))
         => /\ last.exc = "none"
            /\ Len(last.out) = LastN + 1
            /\ SubSeq(last.out, 1, LastN) = last.input
            /\ last.out[LastN + 1].path = abspath(last.v)
            /\ last.tab = "clip" =>
                 /\ last.out[LastN + 1].start_sec = last.start_sec
                 /\ last.out[LastN + 1].end_sec = last.end_sec

\* the first of two different segments deleted
C18_Witness ==
    /\ last.tab = "clip" /\ last.op = "delete" /\ last.idx = PyInt(1)
    /\ LastN = 2 /\ last.input[1] # last.input[2]
    /\ last.out = << last.input[2] >>

(* C19: no list operation changes the list object it was given: when add,
   move, delete or clear has returned, the caller's list has the entries it
   had before the call, in the same order. *)
C19_InputListNotMutated ==
    last.op # "none" => last.input_after = last.input

\* a delete that handed back a shorter list and left the caller's list alone
C19_Witness ==
    /\ last.op = "delete" /\ LastN = 2
    /\ Len(last.out) = 1
    /\ last.input_after = last.input

(* C20: every entry of the session's segment list has start_sec >= 0 in
   every reachable state: add admits no segment with a negative start,
   whatever start and end it is called with. *)
C20_StartNeverNegative ==
    \A k \in 1..Len(state_segments) : state_segments[k].start_sec >= 0


(* C17: no stage is retried and a failure surfaces at once: nothing is
   started after a subprocess that failed; in clip_and_merge, when the trim
   of segment k fails, exactly k trims have been started, each segment at
   most once, the concat is never started, and the call ends with the error;
   in merge_videos the concat is started at most once. *)
C17_NoRetryFailureSurfaces ==
    \A p \in Procs :
        LET f == inv[p]
            n == Len(f.calls)
            trims == OfKind(f.calls, "trim")
            concats == OfKind(f.calls, "concat")
        IN  /\ \A k \in 1..n : f.calls[k].returncode # 0 => k = n
            /\ \A j, k \in 1..Len(trims) :
                 (trims[j].output = trims[k].output) => j = k
            /\ Len(concats) <= 1
            /\ ( /\ f.op = "clip_and_merge" /\ n > 0
                 /\ f.calls[n].kind = "trim" /\ f.calls[n].returncode # 0 )
                 => /\ Len(trims) = f.idx /\ f.idx <= Len(f.segments)
                    /\ f.part_paths = [ i \in 1..(f.idx - 1) |-> trims[i].output ]
                    /\ concats = <<>>
                    /\ f.pc \in {"cam_exit", "returned", "done"}
                    /\ f.err.type = "FfmpegError"
            /\ (Terminated(f) /\ n > 0 /\ f.calls[n].returncode # 0)
                 => f.result.kind = "raise" /\ f.err.type = "FfmpegError"

\* the first trim of two failed: one trim, no concat, the error handed on
C17_Witness ==
    \E p \in Procs :
        /\ inv[p].op = "clip_and_merge" /\ inv[p].pc = "returned"
        /\ Len(inv[p].segments) = 2 /\ inv[p].idx = 1
        /\ Len(OfKind(inv[p].calls, "trim")) = 1
        /\ inv[p].calls[Len(inv[p].calls)].returncode # 0
        /\ OfKind(inv[p].calls, "concat") = <<>>
        /\ inv[p].result.kind = "raise"


(* C15: list_video_files returns the empty sequence for every relative_dir
   that resolves to a directory outside the media root, a sibling directory
   whose name has the root's name as a string prefix included (root /a/b,
   relative_dir ../bc), and never raises. *)
C15_ListingEmptyOutsideRoot ==
    (listing.called
       /\ ~InsideRoot(abspath(normpath(join(MEDIA_ROOT, path_value))), media_root_abs))
      => listing.items = <<>>

-----------------------------------------------------------------------------
(* C21: in the merge tab, after any sequence of add, row select (of an
   existing row), move up/down, delete and clear, the stored selection is
   None or an integer in 1..len(videos), and it is None whenever the list is
   empty. *)
C21_SelectionNoneOrInRange ==
    tab = "merge_events" =>
      /\ state_selected = NoneInt \/ state_selected[1] \in 1..Len(state_videos)
      /\ state_videos = <<>> => state_selected = NoneInt

\* the last of three entries was selected and deleted: the selection moved
\* down with the list's end
C21_Witness ==
    /\ tab = "merge_events"
    /\ last.op = "delete" /\ last.idx = PyInt(3) /\ Len(last.input) = 3
    /\ Len(state_videos) = 2 /\ state_selected = PyInt(2)

(* C22: in the merge tab the selection follows the moved entry: after a move
   that swaps, the entry at the returned selection in the new list is the
   entry that was at the selected index in the old list, and the returned
   selection is what the next click starts from; at the first (last)
   position a further up (down) click changes neither list nor selection. *)
C22_SelectionFollowsMovedEntry ==
    (last.tab = "merge_events" /\ last.op = "move" /\ last.idx # NoneInt) =>
      LET i == last.idx[1]
          j == i + last.direction
      IN  /\ state_videos = last.out /\ state_selected = last.selected
          /\ IF j \in 1..Len(last.input)
               THEN /\ last.selected = PyInt(j)
                    /\ Len(last.out) = Len(last.input)
                    /\ last.out[j] = last.input[i]
               ELSE last.out = last.input /\ last.selected = last.idx

\* an up click on the second of three entries put it first
C22_Witness ==
    /\ last.tab = "merge_events" /\ last.op = "move"
    /\ last.idx = PyInt(2) /\ last.direction = 0 - 1
    /\ Len(last.input) = 3
    /\ state_selected = PyInt(1)
    /\ state_videos[1] = last.input[2]

(* C23: a run handler returns an output path other than None only if every
   trim subprocess of the run (fast clip tab) and the concat subprocess
   exited with code 0; if a subprocess of the run exits non-zero or the list
   is empty, the returned path is None and the message is an error
   message. *)
C23_PathOnlyAfterEveryStageSucceeded ==
    \A p \in Procs :
        LET f == inv[p]
            trims == OfKind(f.calls, "trim")
            concats == OfKind(f.calls, "concat")
            empty == IF f.caller = "clip_run" THEN f.segments = <<>>
                                               ELSE f.video_paths = <<>>
        IN  (f.pc = "done" /\ f.caller \in {"clip_run", "merge_run"}) =>
              /\ f.outcome.path # None =>
                   /\ ~empty
                   /\ \A k \in 1..Len(f.calls) : f.calls[k].returncode = 0
                   /\ Len(concats) = 1 /\ concats[1].output = f.outcome.path
                   /\ f.caller = "clip_run" => Len(trims) = Len(f.segments)
                   /\ f.caller = "merge_run" => trims = <<>>
              /\ (empty \/ \E k \in 1..Len(f.calls) : f.calls[k].returncode # 0) =>
                   /\ f.outcome.path = None
                   /\ f.outcome.kind = "pair"
                   /\ f.outcome.msg # <<>>
                   /\ f.outcome.msg[1] = "error: "

\* the fast clip handler's run: both trims exited with 0, the concat did not
C23_Witness ==
    \E p \in Procs :
        /\ inv[p].pc = "done" /\ inv[p].caller = "clip_run"
        /\ Len(inv[p].segments) = 2
        /\ Len(OfKind(inv[p].calls, "trim")) = 2
        /\ Len(OfKind(inv[p].calls, "concat")) = 1
        /\ OfKind(inv[p].calls, "concat")[1].returncode # 0
        /\ inv[p].outcome.path = None
        /\ inv[p].outcome.msg[1] = "error: "

\* invocation p is inside clip_and_merge / merge_videos and has its output path
InPipeline(p) ==
    /\ inv[p].op \in {"clip_and_merge", "merge_videos"}
    /\ inv[p].pc \notin {"idle", "cam_enter", "mv_enter", "returned", "done"}
    /\ inv[p].output_path # <<>>

(* C24: two overlapping invocations of the pipeline (clip_and_merge or
   merge_videos, the same one, with the same output directory) never use the
   same output file path or the same manifest file: a manifest is read by the
   concat subprocess of the invocation that wrote it, with the content that
   invocation wrote, and is removed only by that invocation. *)
C24_OverlappingInvocationsShareNoFile ==
    /\ \A p, q \in Procs :
         ( /\ p # q /\ InPipeline(p) /\ InPipeline(q)
           /\ inv[p].op = inv[q].op /\ inv[p].output_dir = inv[q].output_dir )
           => /\ inv[p].output_path # inv[q].output_path
              /\ inv[p].output_path \o <<".", "t", "x", "t">>
                   # inv[q].output_path \o <<".", "t", "x", "t">>
    /\ \A p \in Procs :
         LET f == inv[p]
             concats == OfKind(f.calls, "concat")
         IN  /\ f.pc = "concat_run" =>
                  /\ f.list_file \in DOMAIN fs
                  /\ fs[f.list_file].data = manifest_lines(f.c_inputs)
             /\ \A k \in 1..Len(concats) :
                  /\ concats[k].input = f.list_file
                  /\ concats[k].read = manifest_lines(f.c_inputs)


====
